---- MODULE Spec2Model ----
(***************************************************************************)
(* Model of ndi.time.syncgraph.SyncGraph and of the sync rules it applies  *)
(* (ndi/time/syncgraph.py, ndi/time/syncrules/*.py).                       *)
(*                                                                         *)
(* The state is one SyncGraph object: its rule list, its cached graphinfo  *)
(* dictionary (nodes, G, mapping, syncRuleG, diG) and the session whose    *)
(* DAQ systems buildgraphinfo() replays.  Matrices are 0-based functions   *)
(* as in the source; the node list is a sequence (index k is nodes[k+1]).  *)
(* The session modelled here has no 'cache' attribute, so getcache()       *)
(* returns (None, None) and the cache is SyncGraph._cached_graphinfo only. *)
(* callers holds the position and the locals of every thread that is in    *)
(* the middle of a query.  adopted holds the matrices of the device whose   *)
(* own array objects ginfo['G'] and ginfo['mapping'] currently are, with    *)
(* the values they had when the device handed them over.                   *)
(***************************************************************************)
EXTENDS Integers, Sequences, FiniteSets, TLC

VARIABLES rules, cached, nodes, G, mapping, syncRuleG, diG, session, result, callers,
          adopted

vars == <<rules, cached, nodes, G, mapping, syncRuleG, diG, session, result, callers,
          adopted>>

(* ------------------------------ bounds --------------------------------- *)
MaxNodes == 3
MaxRules == 2
MaxBatch == 3

(* ------------------------------ values --------------------------------- *)
\* np.inf: larger than every finite cost and every path total of the model.
Inf == 1000000

\* Python None where a TimeMapping is expected.
NoMapping == [kind |-> "none"]

\* TimeMapping('linear', [scale, shift]).  The model's numbers are integers, so
\* a mapping carries a divisor: [scale / div, shift / div]; div = 1 unless the
\* mapping is an inverse.
TimeMapping(scale, shift) ==
  [kind |-> "linear", scale |-> scale, shift |-> shift, div |-> 1]

\* TimeMapping('linear', [1.0 / scale, -shift / scale])
InverseMapping(scale, shift) ==
  [kind |-> "linear", scale |-> 1, shift |-> 0 - shift, div |-> scale]

\* TimeMapping.map: t_out = scale * t_in + shift
MapTime(m, t) == (m.scale * t + m.shift) \div m.div

\* a dictionary key that is not present
Absent == "<absent>"

\* ginfo['diG'] is None
NoDiG == [built |-> FALSE]

(* --------------------------- epoch nodes -------------------------------- *)
EpochNode(id, clock, name, class, files) ==
  [epoch_id |-> id, epoch_clock |-> clock, objectname |-> name,
   objectclass |-> class, underlying |-> files]

NodeA == EpochNode("e1", "utc", "dev1", "ndi.daq.system.mfdaq",
                   <<"/a/f1.dat", "/a/sync.txt">>)
NodeB == EpochNode("e2", "utc", "dev2", "ndi.daq.system", <<"/a/f1.dat">>)
NodeC == EpochNode("e3", "dev_global_time", "dev1", "ndi.daq.system",
                   <<"/a/f1.dat">>)
NodeD == EpochNode("e4", "dev_global_time", "dev2", Absent, <<>>)

NodeKinds == {NodeA, NodeB, NodeC, NodeD}

\* str.__contains__ on the class strings of the model: needle in hay
StrContains(hay, needle) ==
  \/ hay = needle
  \/ needle = ""
  \/ <<hay, needle>> \in {<<"ndi.daq.system.mfdaq", "ndi.daq.system">>,
                          <<"ndi.daq.system.mfdaq", "ndi.daq">>,
                          <<"ndi.daq.system", "ndi.daq">>}

\* os.path.basename on the file paths of the model
Basename(path) ==
  CASE path = "/a/f1.dat" -> "f1.dat"
    [] path = "/a/sync.txt" -> "sync.txt"
    [] path = "/b/sync.txt" -> "sync.txt"
    [] OTHER -> path

\* np.loadtxt on the sync files of the model: (shift, scale)
SyncFileData(path) ==
  CASE path = "/a/sync.txt" -> [shift |-> 5, scale |-> 1]
    [] OTHER -> [shift |-> 10, scale |-> 2]

SeqToSet(s) == {s[k] : k \in 1..Len(s)}

(* ------------------------------ sync rules ------------------------------ *)
FileMatchRule(n) == [type |-> "FileMatch", number_fullpath_matches |-> n]

FileFindRule(n, fname, d1, d2) ==
  [type |-> "FileFind", number_fullpath_matches |-> n, syncfilename |-> fname,
   daqsystem1 |-> d1, daqsystem2 |-> d2]

\* an object that is not a SyncRule
NotARule == [type |-> "str"]

IsSyncRule(r) == r.type \in {"FileMatch", "FileFind", "CommonTriggers"}

\* SyncRule.__eq__: same type and same parameters
RuleEq(a, b) == a = b

\* outcome of rule.apply: (None, None), (cost, mapping) or an exception
NoMatch == [kind |-> "none"]
Proposal(c, m) == [kind |-> "edge", cost |-> c, mapping |-> m]
Raised(e) == [kind |-> "raise", error |-> e]

\* epochnode.get('objectclass', '')
ClassOf(node) == IF node.objectclass = Absent THEN "" ELSE node.objectclass

FileMatchApplyAnyClass(rule, a, b) ==
  IF a.underlying = <<>> \/ b.underlying = <<>>
  THEN NoMatch
  ELSE IF Cardinality(SeqToSet(a.underlying) \cap SeqToSet(b.underlying))
            >= rule.number_fullpath_matches
  THEN Proposal(1, TimeMapping(1, 0))
  ELSE NoMatch

\* FileMatch.apply
FileMatchApply(rule, a, b) ==
  IF ~StrContains(ClassOf(a), "ndi.daq.system")
     \/ ~StrContains(ClassOf(b), "ndi.daq.system")
  THEN NoMatch
  ELSE IF a.underlying = <<>> \/ b.underlying = <<>>
  THEN NoMatch
  ELSE IF Cardinality(SeqToSet(a.underlying) \cap SeqToSet(b.underlying))
            >= rule.number_fullpath_matches
  THEN Proposal(1, TimeMapping(1, 0))
  ELSE NoMatch

LoadSyncFileNoInverse(path, reverse) ==
  Proposal(1, TimeMapping(SyncFileData(path).scale, SyncFileData(path).shift))

\* FileFind._load_sync_file
LoadSyncFile(path, reverse) ==
  LET d == SyncFileData(path) IN
  IF reverse
  THEN IF d.scale = 0 THEN Raised("ValueError")
       ELSE Proposal(1, InverseMapping(d.scale, d.shift))
  ELSE Proposal(1, TimeMapping(d.scale, d.shift))

FileFindApplyAmongCommon(rule, a, b) ==
  LET forward == a.objectname = rule.daqsystem1 /\ b.objectname = rule.daqsystem2
      backward == b.objectname = rule.daqsystem1 /\ a.objectname = rule.daqsystem2
      src == IF forward THEN a.underlying ELSE b.underlying
      common == SeqToSet(a.underlying) \cap SeqToSet(b.underlying)
      hits == {k \in 1..Len(src) : Basename(src[k]) = rule.syncfilename /\ src[k] \in common}
      first == CHOOSE k \in hits : \A h \in hits : k <= h
  IN
  IF ~forward /\ ~backward THEN NoMatch
  ELSE IF ~StrContains(ClassOf(a), "ndi.daq.system")
          \/ ~StrContains(ClassOf(b), "ndi.daq.system")
  THEN NoMatch
  ELSE IF a.underlying = <<>> \/ b.underlying = <<>>
  THEN NoMatch
  ELSE IF Cardinality(common) < rule.number_fullpath_matches
  THEN NoMatch
  ELSE IF hits = {} THEN Raised("FileNotFoundError")
  ELSE LoadSyncFile(src[first], ~forward)

\* FileFind.apply
FileFindApply(rule, a, b) ==
  LET forward == a.objectname = rule.daqsystem1 /\ b.objectname = rule.daqsystem2
      backward == b.objectname = rule.daqsystem1 /\ a.objectname = rule.daqsystem2
      src == IF forward THEN a.underlying ELSE b.underlying
      hits == {k \in 1..Len(src) : Basename(src[k]) = rule.syncfilename}
      first == CHOOSE k \in hits : \A h \in hits : k <= h
  IN
  IF ~forward /\ ~backward THEN NoMatch
  ELSE IF ~StrContains(ClassOf(a), "ndi.daq.system")
          \/ ~StrContains(ClassOf(b), "ndi.daq.system")
  THEN NoMatch
  ELSE IF a.underlying = <<>> \/ b.underlying = <<>>
  THEN NoMatch
  ELSE IF Cardinality(SeqToSet(a.underlying) \cap SeqToSet(b.underlying))
            < rule.number_fullpath_matches
  THEN NoMatch
  ELSE IF hits = {} THEN Raised("FileNotFoundError")
  ELSE LoadSyncFile(src[first], ~forward)

CommonTriggersRule(n, d1, c1, d2, c2) ==
  [type |-> "CommonTriggers", number_fullpath_matches |-> n,
   daqsystem1 |-> d1, channel_daq1 |-> c1, daqsystem2 |-> d2, channel_daq2 |-> c2]

CommonTriggersApplyNamed(rule, a, b) ==
  IF ~(a.objectname = rule.daqsystem1 /\ b.objectname = rule.daqsystem2)
     /\ ~(b.objectname = rule.daqsystem1 /\ a.objectname = rule.daqsystem2)
  THEN NoMatch
  ELSE FileMatchApply(rule, a, b)

\* CommonTriggers.apply
CommonTriggersApply(rule, a, b) ==
  LET class_a == ClassOf(a)
      class_b == ClassOf(b)
      common_files == SeqToSet(a.underlying) \cap SeqToSet(b.underlying)
  IN
  IF ~StrContains(class_a, "ndi.daq.system") \/ ~StrContains(class_b, "ndi.daq.system")
  THEN NoMatch
  ELSE IF Len(a.underlying) = 0 \/ Len(b.underlying) = 0
  THEN NoMatch
  ELSE IF Cardinality(common_files) >= rule.number_fullpath_matches
  THEN Proposal(1, TimeMapping(1, 0))
  ELSE NoMatch

RuleApplySkipErrors(rule, a, b) ==
  IF rule.type = "CommonTriggers" THEN CommonTriggersApply(rule, a, b)
  ELSE IF rule.type # "FileFind" THEN FileMatchApply(rule, a, b)
  ELSE IF FileFindApply(rule, a, b).kind = "raise" THEN NoMatch
  ELSE FileFindApply(rule, a, b)

\* rule.apply(node_a, node_b) for the rule classes of the model
RuleApply(rule, a, b) ==
  IF rule.type = "FileFind" THEN FileFindApply(rule, a, b)
  ELSE IF rule.type = "CommonTriggers" THEN CommonTriggersApply(rule, a, b)
  ELSE FileMatchApply(rule, a, b)

\* the rules a caller registers in the model
RuleKinds == {FileMatchRule(1), FileMatchRule(2),
              FileFindRule(1, "sync.txt", "dev1", "dev2")}

(* --------------------------- graph info --------------------------------- *)
\* the dictionary built at the top of buildgraphinfo (syncRuleIDs left out:
\* rule ids come from IDO and take no part in any edge decision)
EmptyGInfo ==
  [nodes |-> <<>>, G |-> <<>>, mapping |-> <<>>, syncRuleG |-> <<>>, diG |-> NoDiG]

\* the cached dictionary self._cached_graphinfo
CachedGInfo ==
  [nodes |-> nodes, G |-> G, mapping |-> mapping, syncRuleG |-> syncRuleG, diG |-> diG]

\* G.shape[0]
Shape0(M) == Cardinality(DOMAIN M)

Min(S) == CHOOSE x \in S : \A y \in S : x <= y

AutomaticClockMappingAnyDevice(node_i, node_j) ==
  LET type_i == node_i.epoch_clock
      type_j == node_j.epoch_clock
  IN
  IF type_i = Absent \/ type_j = Absent
  THEN [cost |-> Inf, mapping |-> NoMapping]
  ELSE IF \/ type_i = type_j /\ type_i \in {"utc", "approx_utc", "exp_global_time",
                                            "dev_global_time"}
          \/ {type_i, type_j} = {"utc", "approx_utc"}
  THEN [cost |-> 100, mapping |-> TimeMapping(1, 0)]
  ELSE [cost |-> Inf, mapping |-> NoMapping]

AutomaticClockMappingOneWay(node_i, node_j) ==
  LET type_i == node_i.epoch_clock
      type_j == node_j.epoch_clock
      edge == [cost |-> 100, mapping |-> TimeMapping(1, 0)]
      none == [cost |-> Inf, mapping |-> NoMapping]
  IN
  IF type_i = Absent \/ type_j = Absent THEN none
  ELSE IF type_i = type_j /\ type_i \in {"utc", "approx_utc", "exp_global_time"}
  THEN edge
  ELSE IF type_i = type_j /\ type_i = "dev_global_time"
          /\ node_i.objectname = node_j.objectname
  THEN edge
  ELSE IF type_i = "utc" /\ type_j = "approx_utc"
  THEN edge
  ELSE none

\* SyncGraph._automatic_clock_mapping
AutomaticClockMapping(node_i, node_j) ==
  LET type_i == node_i.epoch_clock
      type_j == node_j.epoch_clock
      edge == [cost |-> 100, mapping |-> TimeMapping(1, 0)]
      none == [cost |-> Inf, mapping |-> NoMapping]
  IN
  IF type_i = Absent \/ type_j = Absent THEN none
  ELSE IF type_i = type_j /\ type_i \in {"utc", "approx_utc", "exp_global_time"}
  THEN edge
  ELSE IF type_i = type_j /\ type_i = "dev_global_time"
          /\ node_i.objectname = node_j.objectname
  THEN edge
  ELSE IF (type_i = "utc" /\ type_j = "approx_utc")
          \/ (type_i = "approx_utc" /\ type_j = "utc")
  THEN edge
  ELSE none

\* addepoch step 2, the two writes made for an automatic edge of finite
\* cost: G[i, j] = cost_ij and mapping[i][j] = mapping_ij
AutoEdgeCost(auto, old) == IF auto.cost < Inf THEN auto.cost ELSE old

AutoEdgeMappingDropped(auto, old) == old

AutoEdgeMapping(auto, old) == IF auto.cost < Inf THEN auto.mapping ELSE old

RECURSIVE BestOfRulesLastWins(_, _, _, _, _)
BestOfRulesLastWins(rs, k, a, b, best) ==
  IF k > Len(rs) THEN best
  ELSE LET r == RuleApply(rs[k], a, b)
           better == r.kind = "edge" /\ r.cost <= best.cost
       IN BestOfRulesLastWins(rs, k + 1, a, b,
                              IF better
                              THEN [cost |-> r.cost, mapping |-> r.mapping, rule |-> k]
                              ELSE best)

\* the inner loop of addepoch step 3: rules k..Len(rs) applied to (a, b),
\* best = (cost, mapping, rule index) so far; a raising rule is handled by
\* the caller, here it proposes nothing
RECURSIVE BestOfRules(_, _, _, _, _)
BestOfRules(rs, k, a, b, best) ==
  IF k > Len(rs) THEN best
  ELSE LET r == RuleApply(rs[k], a, b)
           better == r.kind = "edge" /\ r.cost < best.cost
       IN BestOfRules(rs, k + 1, a, b,
                      IF better
                      THEN [cost |-> r.cost, mapping |-> r.mapping, rule |-> k]
                      ELSE best)

\* the default internal graph addepoch gives a device without epochgraph()
AddepochDefaultCost(new_n) ==
  [i \in 0..new_n - 1 |-> [j \in 0..new_n - 1 |-> Inf]]

DefaultMapping(new_n) ==
  [i \in 0..new_n - 1 |-> [j \in 0..new_n - 1 |-> NoMapping]]

\* addepoch step 1: the node list extended and the three matrices expanded,
\* the old graph upper-left, the device's internal graph lower-right
AddEpochExpand(dev, g) ==
  LET old_n == Len(g.nodes)
      new_n == Len(dev.nodes)
      Idx == 0..old_n + new_n - 1
      new_cost == IF dev.epochgraph THEN dev.cost ELSE AddepochDefaultCost(new_n)
      new_mapping == IF dev.epochgraph THEN dev.mapping ELSE DefaultMapping(new_n)
  IN
  [nodes |-> g.nodes \o dev.nodes,
   G |-> [i \in Idx |-> [j \in Idx |->
            IF i < old_n /\ j < old_n THEN g.G[i][j]
            ELSE IF i >= old_n /\ j >= old_n THEN new_cost[i - old_n][j - old_n]
            ELSE Inf]],
   mapping |-> [i \in Idx |-> [j \in Idx |->
            IF i < old_n /\ j < old_n THEN g.mapping[i][j]
            ELSE IF i >= old_n /\ j >= old_n THEN new_mapping[i - old_n][j - old_n]
            ELSE NoMapping]],
   syncRuleG |-> [i \in Idx |-> [j \in Idx |->
            IF i < old_n /\ j < old_n THEN g.syncRuleG[i][j] ELSE 0]],
   diG |-> g.diG]

CrossOrNew(old_n, a, b) == a # b /\ (a >= old_n \/ b >= old_n)

\* the ordered pairs (a, b) the loops of steps 2 and 3 visit: one index below
\* old_n, the other at or above it
Cross(old_n, a, b) == (a < old_n) # (b < old_n)

\* addepoch step 2: automatic clock-type connections between old and new nodes
AddEpochAutomatic(g, old_n) ==
  LET Idx == 0..Len(g.nodes) - 1 IN
  [g EXCEPT
     !.G = [a \in Idx |-> [b \in Idx |->
              IF Cross(old_n, a, b)
              THEN AutoEdgeCost(AutomaticClockMapping(g.nodes[a + 1], g.nodes[b + 1]),
                                g.G[a][b])
              ELSE g.G[a][b]]],
     !.mapping = [a \in Idx |-> [b \in Idx |->
              IF Cross(old_n, a, b)
              THEN AutoEdgeMapping(AutomaticClockMapping(g.nodes[a + 1], g.nodes[b + 1]),
                                   g.mapping[a][b])
              ELSE g.mapping[a][b]]]]

\* the place of the ordered pair (a, b) in the loop nest of step 3
Position(old_n, new_n, a, b) ==
  IF a < b THEN ((a * new_n) + (b - old_n)) * 2
  ELSE ((b * new_n) + (a - old_n)) * 2 + 1

\* the places of the loop nest of step 3 where some rule raises
RaisePositions(g, old_n, rs) ==
  LET Idx == 0..Len(g.nodes) - 1 IN
  {Position(old_n, Len(g.nodes) - old_n, p[1], p[2]) :
     p \in {q \in Idx \X Idx :
              /\ Cross(old_n, q[1], q[2])
              /\ \E k \in 1..Len(rs) :
                   RuleApply(rs[k], g.nodes[q[1] + 1], g.nodes[q[2] + 1]).kind = "raise"}}

\* the best (cost, mapping, rule index) of every ordered pair step 3 gets
\* through before the place `stop`; a pair it does not reach has cost Inf
BestOfPairs(g, old_n, rs, stop) ==
  LET Idx == 0..Len(g.nodes) - 1 IN
  [a \in Idx |-> [b \in Idx |->
     IF /\ Cross(old_n, a, b)
        /\ Len(rs) > 0
        /\ Position(old_n, Len(g.nodes) - old_n, a, b) < stop
     THEN BestOfRules(rs, 1, g.nodes[a + 1], g.nodes[b + 1],
                      [cost |-> g.G[a][b], mapping |-> g.mapping[a][b], rule |-> 0])
     ELSE [cost |-> Inf, mapping |-> NoMapping, rule |-> 0]]]

\* the writes of step 3: a best cost below Inf goes into G and mapping, and
\* its rule index, when a rule gave it, into syncRuleG
AddEpochWrite(g, best) ==
  LET Idx == 0..Len(g.nodes) - 1 IN
  [g EXCEPT
     !.G = [a \in Idx |-> [b \in Idx |->
              IF best[a][b].cost < Inf THEN best[a][b].cost ELSE g.G[a][b]]],
     !.mapping = [a \in Idx |-> [b \in Idx |->
              IF best[a][b].cost < Inf THEN best[a][b].mapping ELSE g.mapping[a][b]]],
     !.syncRuleG = [a \in Idx |-> [b \in Idx |->
              IF best[a][b].cost < Inf /\ best[a][b].rule > 0
              THEN best[a][b].rule ELSE g.syncRuleG[a][b]]]]

\* addepoch step 3: the rules applied to every ordered pair, up to the first
\* place where a rule raises
AddEpochRules(g, old_n, rs, raises) ==
  [ginfo |-> AddEpochWrite(g, BestOfPairs(g, old_n, rs,
                                          IF raises = {} THEN Inf ELSE Min(raises))),
   raised |-> raises # {}]

\* step 3 on the dictionary g2 that step 2 left
AddEpochSteps(g2, old_n, rs) ==
  AddEpochRules(g2, old_n, rs, RaisePositions(g2, old_n, rs))

\* SyncGraph.addepoch(ndi_daqsystem_obj, ginfo) with the rule list rs.
\* ginfo is updated in place, so the dictionary keeps every write made before
\* a rule raised: the result is the dictionary and whether the call raised.
AddEpoch(dev, g, rs) ==
  IF Len(dev.nodes) = 0
  THEN [ginfo |-> g, raised |-> FALSE]
  ELSE AddEpochSteps(AddEpochAutomatic(AddEpochExpand(dev, g), Len(g.nodes)),
                     Len(g.nodes), rs)

\* SyncGraph._build_networkx_graph: one vertex per row of G, an edge i -> j
\* with weight G[i][j] where G[i][j] is finite and > 0
BuildNetworkxGraph(M) ==
  LET n == Shape0(M) IN
  [built |-> TRUE, n |-> n,
   weight |-> [e \in {p \in (0..n - 1) \X (0..n - 1) :
                        M[p[1]][p[2]] # Inf /\ M[p[1]][p[2]] > 0}
               |-> M[e[1]][e[2]]]]

\* the loop of buildgraphinfo over the session's DAQ systems: an exception
\* of addepoch ends the loop and is swallowed, the dictionary keeps the
\* writes made so far
RECURSIVE AddSessionDevices(_, _, _, _)
RECURSIVE AfterDevice(_, _, _, _)
AfterDevice(sess, k, r, rs) ==
  IF r.raised THEN r.ginfo ELSE AddSessionDevices(sess, k + 1, r.ginfo, rs)

AddSessionDevices(sess, k, g, rs) ==
  IF k > Len(sess) THEN g
  ELSE AfterDevice(sess, k, AddEpoch(sess[k], g, rs), rs)

\* the end of buildgraphinfo: diG is built when the graph has nodes
WithDiGraph(g) ==
  IF Len(g.nodes) > 0 /\ Shape0(g.G) > 0
  THEN [g EXCEPT !.diG = BuildNetworkxGraph(g.G)]
  ELSE g

\* SyncGraph.buildgraphinfo
BuildGraphInfo(rs, sess) == WithDiGraph(AddSessionDevices(sess, 1, EmptyGInfo, rs))

GraphInfoOfRebuilt(rs, sess, isCached, cur) == BuildGraphInfo(rs, sess)

\* what graphinfo() returns (and caches) in the current state
GraphInfoOf(rs, sess, isCached, cur) ==
  IF isCached THEN cur ELSE BuildGraphInfo(rs, sess)

CurrentGraphInfo == GraphInfoOf(rules, session, cached, CachedGInfo)

(* ----------------------- matrices handed over --------------------------- *)
\* ginfo['G'] and ginfo['mapping'] are objects of the graph's own
NotAdopted == [is |-> FALSE]

\* they are the objects a device handed over, which held cost and mapping then
Adopted(new_cost, new_mapping) ==
  [is |-> TRUE, cost |-> new_cost, mapping |-> new_mapping]

\* addepoch on the dictionary g takes the device's matrices as they are:
\* ginfo['G'] = new_cost and ginfo['mapping'] = new_mapping when old_n == 0
Adopts(dev, g) == Len(g.nodes) = 0 /\ Len(dev.nodes) > 0 /\ dev.epochgraph

AdoptedAfterKept(dev, g, prev) ==
  IF Len(dev.nodes) = 0 THEN prev
  ELSE IF Adopts(dev, g) THEN Adopted(dev.cost, dev.mapping)
  ELSE prev

\* whose objects the matrices of the dictionary are after addepoch(dev, g):
\* an empty device changes nothing, and a graph that has nodes gets fresh
\* matrices
AdoptedAfter(dev, g, prev) ==
  IF Len(dev.nodes) = 0 THEN prev
  ELSE IF Adopts(dev, g) THEN Adopted(dev.cost, dev.mapping)
  ELSE NotAdopted

\* the same over the loop of buildgraphinfo
RECURSIVE AdoptedInSession(_, _, _, _, _)
AdoptedInSession(sess, k, g, rs, prev) ==
  IF k > Len(sess) THEN prev
  ELSE IF AddEpoch(sess[k], g, rs).raised THEN AdoptedAfter(sess[k], g, prev)
  ELSE AdoptedInSession(sess, k + 1, AddEpoch(sess[k], g, rs).ginfo, rs,
                        AdoptedAfter(sess[k], g, prev))

\* whose objects the matrices of the dictionary graphinfo() returns are
CurrentAdopted ==
  IF cached THEN adopted
  ELSE AdoptedInSession(session, 1, EmptyGInfo, rules, NotAdopted)

(* --------------------------- path finding ------------------------------- *)
\* vertices of a built digraph
Vertices(d) == 0..d.n - 1

\* the simple paths from s to t along edges of d
SimplePaths(d, s, t) ==
  {p \in UNION {[1..k -> Vertices(d)] : k \in 2..d.n} :
     /\ p[1] = s
     /\ p[Len(p)] = t
     /\ \A x, y \in 1..Len(p) : x # y => p[x] # p[y]
     /\ \A x \in 1..Len(p) - 1 : <<p[x], p[x + 1]>> \in DOMAIN d.weight}

RECURSIVE PathCost(_, _, _)
PathCost(d, p, k) ==
  IF k >= Len(p) THEN 0 ELSE d.weight[<<p[k], p[k + 1]>>] + PathCost(d, p, k + 1)

\* nx.has_path(diG, s, t) for vertices of diG
HasPath(d, s, t) == SimplePaths(d, s, t) # {}

\* the paths nx.dijkstra_path may return: those of minimum total weight
DijkstraPaths(d, s, t) ==
  {p \in SimplePaths(d, s, t) :
     \A q \in SimplePaths(d, s, t) : PathCost(d, p, 1) <= PathCost(d, q, 1)}

RECURSIVE ApplyMappingsReversed(_, _, _, _)
ApplyMappingsReversed(mp, p, k, t) ==
  IF k >= Len(p) THEN [ok |-> TRUE, t |-> t, from |-> 0, to |-> 0]
  ELSE IF mp[p[Len(p) - k]][p[Len(p) - k + 1]] = NoMapping
  THEN [ok |-> FALSE, t |-> 0, from |-> p[Len(p) - k], to |-> p[Len(p) - k + 1]]
  ELSE ApplyMappingsReversed(mp, p, k + 1,
                             MapTime(mp[p[Len(p) - k]][p[Len(p) - k + 1]], t))

\* the loop of time_convert over the edges k, k+1, ... of path p
RECURSIVE ApplyMappings(_, _, _, _)
ApplyMappings(mp, p, k, t) ==
  IF k >= Len(p) THEN [ok |-> TRUE, t |-> t, from |-> 0, to |-> 0]
  ELSE IF mp[p[k]][p[k + 1]] = NoMapping
  THEN [ok |-> FALSE, t |-> 0, from |-> p[k], to |-> p[k + 1]]
  ELSE ApplyMappings(mp, p, k + 1, MapTime(mp[p[k]][p[k + 1]], t))

(* ------------------------------ results --------------------------------- *)
NoMsg == [text |-> "", args |-> <<>>]
Msg(text, args) == [text |-> text, args |-> args]

\* what a call gives back: outcome "return" or "raise"; for time_convert
\* (t_out, msg), t_out = None being hasValue = FALSE
Res(op, outcome) ==
  [op |-> op, outcome |-> outcome, error |-> "", hasValue |-> FALSE, value |-> 0,
   msg |-> NoMsg, arg |-> 0]

\* the part of a call's outcome the state keeps: the call, how it ended,
\* whether a value came back, the text of the message and, for remove_rule,
\* the index it was called with
Brief(r) == [op |-> r.op, outcome |-> r.outcome, error |-> r.error,
             hasValue |-> r.hasValue, text |-> r.msg.text, arg |-> r.arg]

(* ------------------------------ inputs ---------------------------------- *)
\* the node lists handed to one growth call
BatchList ==
  {<<>>, <<NodeA>>, <<NodeB>>, <<NodeC>>, <<NodeD>>,
   <<NodeA, NodeB>>, <<NodeC, NodeD>>, <<NodeB, NodeA, NodeC>>}

Batches == {b \in BatchList : Len(b) <= MaxBatch}

\* the node lists of the DAQ systems that have no epochgraph method
PlainBatches == {b \in {<<NodeD>>, <<NodeC, NodeD>>} : Len(b) <= MaxBatch}

\* manual_add_nodes default G: Inf everywhere except the diagonal
ManualDefaultCost(n) ==
  [i \in 0..n - 1 |-> [j \in 0..n - 1 |-> IF i = j THEN 0 ELSE Inf]]

\* a device-internal epoch graph: consecutive epochs i -> i+1 at cost 1
ChainCost(n) ==
  [i \in 0..n - 1 |-> [j \in 0..n - 1 |->
     IF i = j THEN 0 ELSE IF j = i + 1 THEN 1 ELSE Inf]]

\* its mappings: t -> 2t on the first edge, t -> t + 10 on the later ones
ChainMapping(n) ==
  [i \in 0..n - 1 |-> [j \in 0..n - 1 |->
     IF j # i + 1 THEN NoMapping
     ELSE IF i = 0 THEN TimeMapping(2, 0) ELSE TimeMapping(1, 10)]]

\* the (G, mapping) arguments of manual_add_nodes for a batch of n nodes
ManualMatrices(n) ==
  {[cost |-> ManualDefaultCost(n), mapping |-> DefaultMapping(n)],
   [cost |-> ChainCost(n), mapping |-> ChainMapping(n)]}

\* MockDAQSystem(nodes, G, mapping)
MockDAQSystem(b, m) ==
  [nodes |-> b, epochgraph |-> TRUE, cost |-> m.cost, mapping |-> m.mapping]

\* a DAQ system object with epochnodes() and no epochgraph()
PlainDAQSystem(b) ==
  [nodes |-> b, epochgraph |-> FALSE, cost |-> <<>>, mapping |-> <<>>]

\* the sessions of the model: no session (or one without DAQ systems), and a
\* session whose daqsystem_load returns two DAQ systems
Sessions ==
  {<<>>,
   <<PlainDAQSystem(<<NodeC>>),
     MockDAQSystem(<<NodeB>>, [cost |-> ManualDefaultCost(1),
                               mapping |-> DefaultMapping(1)])>>}

TimeValues == {5}

\* the arguments of add_rule: one rule, or a list
AddRuleList ==
  {<<r>> : r \in RuleKinds}
  \cup {<<FileMatchRule(2), FileMatchRule(2)>>,
        <<FileMatchRule(1), FileMatchRule(2)>>,
        <<FileMatchRule(1), NotARule>>,
        <<NotARule>>,
        <<FileMatchRule(1), FileMatchRule(2),
          FileFindRule(1, "sync.txt", "dev1", "dev2")>>}

AddRuleInputs == {l \in AddRuleList : Len(l) <= MaxRules}

(* ------------------------------ actions --------------------------------- *)
SetCache(g) ==
  /\ cached' = TRUE
  /\ nodes' = g.nodes
  /\ G' = g.G
  /\ mapping' = g.mapping
  /\ syncRuleG' = g.syncRuleG
  /\ diG' = g.diG

\* SyncGraph.remove_cached_graphinfo
RemoveCachedGraphInfo ==
  /\ cached' = FALSE
  /\ nodes' = EmptyGInfo.nodes
  /\ G' = EmptyGInfo.G
  /\ mapping' = EmptyGInfo.mapping
  /\ syncRuleG' = EmptyGInfo.syncRuleG
  /\ diG' = EmptyGInfo.diG
  /\ adopted' = NotAdopted

KeepCache == UNCHANGED <<cached, nodes, G, mapping, syncRuleG, diG, adopted>>

\* the calls in flight on the SyncGraph object, one entry per thread that is
\* inside a call; operations that run to their end in one step leave it empty
NoCallers == <<>>

Init ==
  /\ rules = <<>>
  /\ cached = FALSE
  /\ nodes = EmptyGInfo.nodes
  /\ G = EmptyGInfo.G
  /\ mapping = EmptyGInfo.mapping
  /\ syncRuleG = EmptyGInfo.syncRuleG
  /\ diG = EmptyGInfo.diG
  /\ session \in Sessions
  /\ result = Brief(Res("init", "return"))
  /\ callers = NoCallers
  /\ adopted = NotAdopted

RuleIsPresentById(rs, rule) == FALSE

\* add_rule's check for duplication: some existing rule equals the rule
RuleIsPresent(rs, rule) == \E e \in 1..Len(rs) : RuleEq(rs[e], rule)

\* the loop of add_rule over the list: items k.. appended unless equal to a
\* rule already present; a non-rule item raises TypeError on the spot
RECURSIVE AddRuleLoop(_, _, _, _)
AddRuleLoop(rs, items, k, did_add) ==
  IF k > Len(items) THEN [rules |-> rs, did_add |-> did_add, raised |-> FALSE]
  ELSE IF ~IsSyncRule(items[k])
  THEN [rules |-> rs, did_add |-> did_add, raised |-> TRUE]
  ELSE IF RuleIsPresent(rs, items[k])
  THEN AddRuleLoop(rs, items, k + 1, did_add)
  ELSE AddRuleLoop(Append(rs, items[k]), items, k + 1, TRUE)

\* SyncGraph.add_rule(syncrule), a single rule being a list of one
AddRule(items) ==
  LET r == AddRuleLoop(rules, items, 1, FALSE) IN
  /\ Len(r.rules) <= MaxRules
  /\ rules' = r.rules
  /\ IF r.raised
     THEN /\ KeepCache
          /\ result' = Brief([Res("add_rule", "raise") EXCEPT !.error = "TypeError"])
     ELSE /\ IF r.did_add THEN RemoveCachedGraphInfo ELSE KeepCache
          /\ result' = Brief(Res("add_rule", "return"))
  /\ UNCHANGED <<session, callers>>

DeleteAtOffByOne(rs, index) ==
  [k \in 1..Len(rs) - 1 |-> IF k < index THEN rs[k] ELSE rs[k + 1]]

\* del self.rules[index]
DeleteAt(rs, index) ==
  [k \in 1..Len(rs) - 1 |-> IF k <= index THEN rs[k] ELSE rs[k + 1]]

\* SyncGraph.remove_rule(index)
RemoveRule(index) ==
  /\ IF 0 <= index /\ index < Len(rules)
     THEN /\ rules' = DeleteAt(rules, index)
          /\ RemoveCachedGraphInfo
     ELSE /\ UNCHANGED rules
          /\ KeepCache
  /\ result' = Brief([Res("remove_rule", "return") EXCEPT !.arg = index])
  /\ UNCHANGED <<session, callers>>

\* SyncGraph.graphinfo()
GraphInfo ==
  /\ SetCache(CurrentGraphInfo)
  /\ adopted' = CurrentAdopted
  /\ result' = Brief(Res("graphinfo", "return"))
  /\ UNCHANGED <<rules, session, callers>>

\* growth of the cached dictionary by one DAQ system: graphinfo(), then
\* addepoch on the dictionary it returned.  An epoch enters the graph once:
\* the batch holds no node twice and no node the graph already has.
Grow(op, dev) ==
  \E g \in {CurrentGraphInfo} :
    /\ Len(g.nodes) + Len(dev.nodes) <= MaxNodes
    /\ Cardinality(SeqToSet(dev.nodes)) = Len(dev.nodes)
    /\ SeqToSet(dev.nodes) \cap SeqToSet(g.nodes) = {}
    /\ \E r \in {AddEpoch(dev, g, rules)} :
         /\ SetCache(r.ginfo)
         /\ adopted' = AdoptedAfter(dev, g, CurrentAdopted)
         /\ result' = IF r.raised
                      THEN Brief([Res(op, "raise") EXCEPT !.error = "RuleError"])
                      ELSE Brief(Res(op, "return"))
    /\ UNCHANGED <<rules, session, callers>>

\* SyncGraph.manual_add_nodes(nodes, G, mapping)
ManualAddNodes(b, m) == Grow("manual_add_nodes", MockDAQSystem(b, m))

\* SyncGraph.addepoch(daqsystem, graph.graphinfo()) for a DAQ system that has
\* no epochgraph method
AddEpochCall(b) == Grow("addepoch", PlainDAQSystem(b))

TimeConvertCacheBeforeIndexCheck(g, s, t) ==
  IF s = t \/ g.diG # NoDiG
  THEN g
  ELSE [g EXCEPT !.diG = BuildNetworkxGraph(g.G)]

TimeConvertCacheBeforeSameNode(g, s, t) ==
  IF s < 0 \/ s >= Len(g.nodes) \/ t < 0 \/ t >= Len(g.nodes) \/ g.diG # NoDiG
  THEN g
  ELSE [g EXCEPT !.diG = BuildNetworkxGraph(g.G)]

\* the dictionary time_convert(s, t, .) leaves in the cache when called on g
TimeConvertCache(g, s, t) ==
  LET n == Len(g.nodes) IN
  IF s < 0 \/ s >= n \/ t < 0 \/ t >= n \/ s = t \/ g.diG # NoDiG
  THEN g
  ELSE [g EXCEPT !.diG = BuildNetworkxGraph(g.G)]

\* what time_convert(s, t, t_in) may give back when graphinfo() returns g
TimeConvertResults(g, s, t, t_in) ==
  LET n == Len(g.nodes)
      g2 == TimeConvertCache(g, s, t)
      d == g2.diG
      R == Res("time_convert", "return")
  IN
  IF s < 0 \/ s >= n
  THEN {[R EXCEPT !.msg = Msg("Invalid source node index", <<s>>)]}
  ELSE IF t < 0 \/ t >= n
  THEN {[R EXCEPT !.msg = Msg("Invalid destination node index", <<t>>)]}
  ELSE IF s = t
  THEN {[R EXCEPT !.hasValue = TRUE, !.value = t_in]}
  ELSE IF s \notin Vertices(d) \/ t \notin Vertices(d)
  THEN \* nx.has_path raises NodeNotFound for a node that is not in diG
       {[Res("time_convert", "raise") EXCEPT !.error = "NodeNotFound"]}
  ELSE IF ~HasPath(d, s, t)
  THEN {[R EXCEPT !.msg = Msg("No path exists", <<s, t>>)]}
  ELSE {LET a == ApplyMappings(g2.mapping, p, 1, t_in) IN
        IF a.ok
        THEN [R EXCEPT !.hasValue = TRUE, !.value = a.t]
        ELSE [R EXCEPT !.msg = Msg("No time mapping found for edge", <<a.from, a.to>>)]
        : p \in DijkstraPaths(d, s, t)}

\* SyncGraph.time_convert(source_node_idx, dest_node_idx, t_in)
TimeConvert(s, t, t_in) ==
  \E g \in {CurrentGraphInfo} :
    /\ SetCache(TimeConvertCache(g, s, t))
    /\ adopted' = CurrentAdopted
    /\ \E r \in TimeConvertResults(g, s, t, t_in) : result' = Brief(r)
    /\ UNCHANGED <<rules, session, callers>>

\* a ClockType object: its attribute `type` is the name of the clock type
ClockType(name) == [type |-> name]

\* no ClockType object
NoClockObject == ClockType(Absent)

\* the properties dictionaries handed to find_node_index; a key that is not
\* supplied is Absent.  The value of the key 'epoch_clock' is a string
\* (epoch_clock) or a ClockType object (clock_object), never both.
Query(id, name, class, clock) ==
  [epoch_id |-> id, objectname |-> name, objectclass |-> class, epoch_clock |-> clock,
   clock_object |-> NoClockObject]

\* {'epoch_clock': ClockType(name)}
QueryByClockObject(name) ==
  [Query(Absent, Absent, Absent, Absent) EXCEPT !.clock_object = ClockType(name)]

Queries ==
  {Query(Absent, Absent, Absent, Absent),
   Query(Absent, "dev1", Absent, "utc"),
   Query(Absent, Absent, "ndi.daq.system", Absent),
   Query("e4", Absent, Absent, Absent),
   Query(Absent, "nonexistent", Absent, Absent),
   Query(Absent, Absent, "ndi.daq.system.mfdaq", "utc"),
   QueryByClockObject("dev_global_time")}

\* str(node_value) for the node's epoch_clock, str(None) where the key is
\* not there
NodeClockType(node) ==
  IF node.epoch_clock = Absent THEN "None" ELSE node.epoch_clock

NodeMatchesExactClass(node, q) ==
  /\ q.objectclass # Absent => node.objectclass = q.objectclass
  /\ q.epoch_clock # Absent => NodeClockType(node) = q.epoch_clock
  /\ q.clock_object # NoClockObject => NodeClockType(node) = q.clock_object.type
  /\ q.epoch_id # Absent => node.epoch_id = q.epoch_id
  /\ q.objectname # Absent => node.objectname = q.objectname

\* the body of the loop of find_node_index for one node
NodeMatches(node, q) ==
  /\ q.objectclass # Absent =>
       node.objectclass # Absent /\ StrContains(node.objectclass, q.objectclass)
  /\ q.epoch_clock # Absent => NodeClockType(node) = q.epoch_clock
  /\ q.clock_object # NoClockObject => NodeClockType(node) = q.clock_object.type
  /\ q.epoch_id # Absent => node.epoch_id = q.epoch_id
  /\ q.objectname # Absent => node.objectname = q.objectname

\* the list find_node_index returns: indices k..Len(ns)-1 that match, ascending
RECURSIVE MatchesFrom(_, _, _)
MatchesFrom(ns, q, k) ==
  IF k >= Len(ns) THEN <<>>
  ELSE (IF NodeMatches(ns[k + 1], q) THEN <<k>> ELSE <<>>) \o MatchesFrom(ns, q, k + 1)

FindNodeIndexResult(g, q) == MatchesFrom(g.nodes, q, 0)

\* SyncGraph.find_node_index(node_properties)
FindNodeIndex(q) ==
  /\ SetCache(CurrentGraphInfo)
  /\ adopted' = CurrentAdopted
  /\ result' = Brief(Res("find_node_index", "return"))
  /\ UNCHANGED <<rules, session, callers>>

Next ==
  \/ \E items \in AddRuleInputs : AddRule(items)
  \/ \E index \in -1..Len(rules) : RemoveRule(index)
  \/ GraphInfo
  \/ \E b \in Batches : \E m \in ManualMatrices(Len(b)) : ManualAddNodes(b, m)
  \/ \E b \in PlainBatches : AddEpochCall(b)
  \/ \E s, t \in -1..Len(CurrentGraphInfo.nodes) : \E t_in \in TimeValues :
       TimeConvert(s, t, t_in)
  \/ \E q \in Queries : FindNodeIndex(q)

Spec == Init /\ [][Next]_vars

(* ------------------------------ properties ------------------------------ *)
NodeIdx == 0..Len(nodes) - 1

Identity == TimeMapping(1, 0)

\* what graphinfo() returns in the state a step leads to
NextGraphInfo ==
  GraphInfoOf(rules', session', cached',
              [nodes |-> nodes', G |-> G', mapping |-> mapping',
               syncRuleG |-> syncRuleG', diG |-> diG'])

IsGrowth(r) == r.op \in {"manual_add_nodes", "addepoch"}

\* C1: whenever the cached graphinfo holds a path-finding graph, that graph
\* has one vertex per node of the node list and an edge i -> j of weight
\* G[i][j] exactly when G[i][j] is finite and > 0.
C1_DiGMatchesCost ==
  (cached /\ diG # NoDiG) =>
    /\ diG.n = Len(nodes)
    /\ \A i, j \in NodeIdx :
         /\ <<i, j>> \in DOMAIN diG.weight <=> (G[i][j] # Inf /\ G[i][j] > 0)
         /\ <<i, j>> \in DOMAIN diG.weight => diG.weight[<<i, j>>] = G[i][j]

\* C2: time_convert never throws: every call returns (value, "") or
\* (None, non-empty message).
C2_TimeConvertNeverThrows ==
  result.op = "time_convert" =>
    /\ result.outcome = "return"
    /\ result.hasValue <=> result.text = ""

\* C3 as stated: for every pair of node indices i, j (i = j included),
\* mapping[i][j] is None exactly when G[i][j] is +infinity.
C3_MappingNoneIffInf ==
  \A i, j \in NodeIdx : mapping[i][j] = NoMapping <=> G[i][j] = Inf

\* C3 amended: for every pair of distinct node indices i # j, mapping[i][j]
\* is None exactly when G[i][j] is +infinity.
C3_OffDiagonalMappingNoneIffInf ==
  \A i, j \in NodeIdx : i # j => (mapping[i][j] = NoMapping <=> G[i][j] = Inf)

\* a growth call has run and the graph holds an automatic edge next to an
\* absent one
C3_Witness ==
  /\ IsGrowth(result)
  /\ \E i, j \in NodeIdx : i # j /\ G[i][j] = 100 /\ mapping[i][j] = Identity
  /\ \E i, j \in NodeIdx : i # j /\ G[i][j] = Inf /\ mapping[i][j] = NoMapping

IsPrefix(a, b) == Len(a) <= Len(b) /\ \A k \in 1..Len(a) : a[k] = b[k]

\* C4: the node list graphinfo() returns is append-only: over every step the
\* number of nodes does not decrease and the node at index k stays at index k.
C4_NodesAppendOnly ==
  [][IsPrefix(CurrentGraphInfo.nodes, NextGraphInfo.nodes)]_vars

\* a rule that matches no pair of distinct epoch nodes
NeverMatches(r) == \A a, b \in NodeKinds : a # b => RuleApply(r, a, b) = NoMatch

\* C5: add_rule of a rule that never matches leaves the graph graphinfo()
\* returns with the same nodes, cost matrix and mapping matrix.
C5_UnmatchedRuleKeepsGraph ==
  [][\A r \in RuleKinds :
       (AddRule(<<r>>) /\ NeverMatches(r) /\ rules' = Append(rules, r)) =>
         /\ NextGraphInfo.nodes = CurrentGraphInfo.nodes
         /\ NextGraphInfo.G = CurrentGraphInfo.G
         /\ NextGraphInfo.mapping = CurrentGraphInfo.mapping]_vars

\* C6: after every add_rule call that appended at least one rule, whether it
\* returned or raised TypeError, no cached graphinfo remains.
C6_AddInvalidatesCache ==
  [][(\E items \in AddRuleInputs : AddRule(items)) /\ Len(rules') > Len(rules)
       => ~cached']_vars

NoEqualRules == \A i, j \in 1..Len(rules) : i # j => ~RuleEq(rules[i], rules[j])

\* C7: the rule list never holds two equal rules, and add_rule of rules that
\* are all present already leaves the rule list and the cached graphinfo as
\* they were.
C7_RulesDeduplicated ==
  [][/\ NoEqualRules'
     /\ \A items \in AddRuleInputs :
          (AddRule(items) /\ \A k \in 1..Len(items) : items[k] \in SeqToSet(rules))
            => UNCHANGED <<rules, cached, nodes, G, mapping, syncRuleG, diG>>]_vars

\* add_rule returned with the cache still in place, so every rule it was
\* handed was a duplicate
C7_Witness ==
  /\ result.op = "add_rule" /\ result.outcome = "return"
  /\ cached /\ Len(nodes) > 0 /\ Len(rules) > 0

\* rs with rule r put in at 0-based position index
InsertAt(rs, index, r) ==
  SubSeq(rs, 1, index) \o <<r>> \o SubSeq(rs, index + 1, Len(rs))

UtcPair(a, b) ==
  /\ a.epoch_clock = "utc" /\ b.epoch_clock = "utc"
  /\ a.objectname # b.objectname

DevGlobalPair(a, b) ==
  /\ a.epoch_clock = "dev_global_time" /\ b.epoch_clock = "dev_global_time"
  /\ a.objectname # b.objectname

\* some registered rule proposes an edge a -> b of cost below c
RuleProposesBelow(rs, a, b, c) ==
  \E k \in 1..Len(rs) :
    LET r == RuleApply(rs[k], a, b) IN r.kind = "edge" /\ r.cost < c

\* C9 as stated: every two utc nodes on different devices, whether they
\* entered in the same growth call or in different ones, have an edge of cost
\* 100 with the identity mapping in both directions when no rule proposes a
\* cheaper one; two dev_global_time nodes on different devices have no
\* automatic edge.
C9_AutoEdgeEveryPair ==
  [][IsGrowth(result') =>
       LET old == CurrentGraphInfo.nodes
           new == NextGraphInfo.nodes
       IN \A i, j \in 0..Len(new) - 1 :
            (i # j /\ (i >= Len(old) \/ j >= Len(old))) =>
              /\ (UtcPair(new[i + 1], new[j + 1])
                  /\ ~RuleProposesBelow(rules, new[i + 1], new[j + 1], 100))
                   => G'[i][j] = 100 /\ mapping'[i][j] = Identity
              /\ DevGlobalPair(new[i + 1], new[j + 1]) => G'[i][j] # 100]_vars

\* C9 amended: a growth call gives every pair of one earlier node and one
\* node of the call, both utc on different devices, an edge of cost 100 with
\* the identity mapping in both directions when no rule proposes a cheaper
\* one; such a pair of dev_global_time nodes on different devices gets no
\* edge (cost +infinity) when no rule proposes one.
C9_AutoEdgeOldNewPair ==
  [][IsGrowth(result') =>
       LET old == CurrentGraphInfo.nodes
           new == NextGraphInfo.nodes
       IN \A i, j \in 0..Len(new) - 1 :
            ((i >= Len(old)) # (j >= Len(old))) =>
              /\ (UtcPair(new[i + 1], new[j + 1])
                  /\ ~RuleProposesBelow(rules, new[i + 1], new[j + 1], 100))
                   => G'[i][j] = 100 /\ mapping'[i][j] = Identity
              /\ (DevGlobalPair(new[i + 1], new[j + 1])
                  /\ ~RuleProposesBelow(rules, new[i + 1], new[j + 1], Inf))
                   => G'[i][j] = Inf /\ mapping'[i][j] = NoMapping]_vars

\* two utc nodes of different devices, added by different growth calls, are
\* joined at cost 100 in both directions
C9_Witness ==
  /\ IsGrowth(result) /\ result.outcome = "return"
  /\ \E i, j \in NodeIdx :
       /\ UtcPair(nodes[i + 1], nodes[j + 1])
       /\ G[i][j] = 100 /\ G[j][i] = 100
       /\ mapping[i][j] = Identity /\ mapping[j][i] = Identity

\* C10: G[i][i] = 0 for every node i, whichever way the node entered.
C10_ZeroDiagonal == \A i \in NodeIdx : G[i][i] = 0

\* whether the loop of buildgraphinfo over devices k.. of the session meets an
\* addepoch call that raises (the exception the except clause catches)
RECURSIVE SessionRaises(_, _, _, _)
RECURSIVE RaisesAfterDevice(_, _, _, _)
RaisesAfterDevice(sess, k, r, rs) ==
  r.raised \/ SessionRaises(sess, k + 1, r.ginfo, rs)

SessionRaises(sess, k, g, rs) ==
  k <= Len(sess) /\ RaisesAfterDevice(sess, k, AddEpoch(sess[k], g, rs), rs)

\* C11: a rule error raised during graph growth reaches the caller: a call
\* that runs graphinfo()'s session rebuild while a rule raises in it ends by
\* raising, and so does a direct manual_add_nodes / addepoch call whose
\* addepoch meets a raising rule.
C11_RuleErrorReachesCaller ==
  [][/\ (~cached /\ cached' /\ SessionRaises(session, 1, EmptyGInfo, rules))
          => result'.outcome = "raise"
     /\ \A b \in Batches : \A m \in ManualMatrices(Len(b)) :
          (ManualAddNodes(b, m)
             /\ AddEpoch(MockDAQSystem(b, m), CurrentGraphInfo, rules).raised)
          => result'.outcome = "raise"
     /\ \A b \in PlainBatches :
          (AddEpochCall(b)
             /\ AddEpoch(PlainDAQSystem(b), CurrentGraphInfo, rules).raised)
          => result'.outcome = "raise"]_vars

\* the path graph of the cost matrix as it is now
FreshDiG(g) == BuildNetworkxGraph(g.G)

\* the value the mappings of path p give for t, or no value where an edge of
\* p has no mapping
ValueAlong(mp, p, t) == ApplyMappings(mp, p, 1, t)

\* C12: in every reachable state, for valid distinct s and t with a path from
\* s to t over the finite positive entries of the current cost matrix,
\* time_convert(s, t, t_in) returns the value obtained along a path of
\* minimum total cost in that matrix.
C12_MinimumCostPath ==
  \A g \in {CurrentGraphInfo} :
    \A s, t \in 0..Len(g.nodes) - 1 : \A t_in \in TimeValues :
      (s # t /\ HasPath(FreshDiG(g), s, t)) =>
        \A r \in TimeConvertResults(g, s, t, t_in) :
          /\ r.outcome = "return"
          /\ r.hasValue
          /\ \E p \in DijkstraPaths(FreshDiG(g), s, t) :
               /\ ValueAlong(g.mapping, p, t_in).ok
               /\ r.value = ValueAlong(g.mapping, p, t_in).t

\* m(p[n-1], p[n])( ... m(p[1], p[2])(t) ... ): the mapping of the last edge
\* of the first n vertices of p applied to the value of the edges before it
RECURSIVE Composed(_, _, _, _)
Composed(mp, p, n, t) ==
  IF n <= 1 THEN t
  ELSE (mp[p[n - 1]][p[n]].scale * Composed(mp, p, n - 1, t)
          + mp[p[n - 1]][p[n]].shift) \div mp[p[n - 1]][p[n]].div

C14_NoPathIffUnreachable ==
  \A g \in {CurrentGraphInfo} :
    \A s, t \in 0..Len(g.nodes) - 1 : \A t_in \in TimeValues :
      s # t =>
        /\ \A r \in TimeConvertResults(g, s, t, t_in) :
             (/\ r.outcome = "return"
              /\ ~r.hasValue
              /\ r.msg = Msg("No path exists", <<s, t>>))
             <=> ~HasPath(FreshDiG(g), s, t)
        /\ TimeConvertCache(g, s, t).nodes = g.nodes
        /\ TimeConvertCache(g, s, t).G = g.G
        /\ TimeConvertCache(g, s, t).mapping = g.mapping

\* C15: time_convert(s, t, t_in) with s outside [0, N) gives back no value and
\* the failure naming s; with s inside and t outside, no value and the failure
\* naming t; in both cases it leaves the dictionary graphinfo() returned as it
\* is, with no path graph built by the call.
C15_IndicesValidatedFirst ==
  \A g \in {CurrentGraphInfo} :
    \A s, t \in -1..Len(g.nodes) : \A t_in \in TimeValues :
      /\ (s < 0 \/ s >= Len(g.nodes)) =>
           /\ TimeConvertResults(g, s, t, t_in) =
                {[Res("time_convert", "return")
                    EXCEPT !.msg = Msg("Invalid source node index", <<s>>)]}
           /\ TimeConvertCache(g, s, t) = g
      /\ (0 <= s /\ s < Len(g.nodes) /\ (t < 0 \/ t >= Len(g.nodes))) =>
           /\ TimeConvertResults(g, s, t, t_in) =
                {[Res("time_convert", "return")
                    EXCEPT !.msg = Msg("Invalid destination node index", <<t>>)]}
           /\ TimeConvertCache(g, s, t) = g

\* time_convert has just refused a destination index on a graph that has
\* nodes and no path graph
C15_Witness ==
  /\ result.op = "time_convert"
  /\ result.text = "Invalid destination node index"
  /\ ~result.hasValue
  /\ cached /\ Len(nodes) > 0 /\ diG = NoDiG

\* C16: time_convert(s, s, t_in) for a valid s gives back t_in with an empty
\* message and leaves the dictionary graphinfo() returned as it is: no path
\* graph is built or read.
C16_SameNodeShortCircuit ==
  \A g \in {CurrentGraphInfo} :
    \A s \in 0..Len(g.nodes) - 1 : \A t_in \in TimeValues :
      /\ TimeConvertResults(g, s, s, t_in) =
           {[Res("time_convert", "return") EXCEPT !.hasValue = TRUE, !.value = t_in]}
      /\ TimeConvertCache(g, s, s) = g

\* time_convert has just returned a value on a graph that has nodes, none of
\* them joined by an edge, and no path graph: a call from a node to itself,
\* one of them with diagonal cost Inf
C16_Witness ==
  /\ result.op = "time_convert" /\ result.hasValue /\ result.text = ""
  /\ cached /\ Len(nodes) > 0 /\ diG = NoDiG
  /\ \E i \in NodeIdx : G[i][i] = Inf

\* the calls that only query the graph
IsQuery(r) == r.op \in {"graphinfo", "time_convert", "find_node_index"}

\* C17: a cached graphinfo is reused: a graphinfo(), time_convert or
\* find_node_index call made while a graphinfo is cached keeps it cached with
\* the same nodes, cost matrix, mapping matrix and rule matrix (graphinfo()
\* and find_node_index keep the path graph too), and every call that runs
\* graphinfo() leaves a cached graphinfo behind, so nothing is built again
\* before the next invalidation.
C17_CachedUnitReused ==
  [][/\ (cached /\ IsQuery(result')) =>
          /\ cached'
          /\ nodes' = nodes /\ G' = G /\ mapping' = mapping /\ syncRuleG' = syncRuleG
          /\ result'.op # "time_convert" => diG' = diG
     /\ (IsQuery(result') \/ IsGrowth(result')) => cached']_vars

\* graphinfo() has just returned manually added nodes, which only a reused
\* cache can hold: a rebuild from the empty session has none
C17_Witness ==
  /\ result.op = "graphinfo"
  /\ session = <<>>
  /\ cached /\ Len(nodes) > 0

(* ------------------- rule application on its own ------------------------ *)
\* epoch nodes handed to apply() besides those of the graph: a device node
\* whose sync file holds (shift 10, scale 2), and a node that is no DAQ system
NodeE == EpochNode("e5", "utc", "dev1", "ndi.daq.system",
                   <<"/a/f1.dat", "/b/sync.txt">>)
NodeF == EpochNode("e6", "utc", "dev2", "ndi.probe", <<"/a/f1.dat", "/a/sync.txt">>)

\* a device node of dev2 that shares the sync file of NodeA
NodeG == EpochNode("e8", "utc", "dev2", "ndi.daq.system", <<"/a/f1.dat", "/a/sync.txt">>)

ApplyNodes == NodeKinds \cup {NodeE, NodeF, NodeG}

\* the rules apply() is called on
\* the CommonTriggers rules apply() is called on: thresholds 1 and 2, the
\* default parameters and parameters naming the devices of the model
CommonTriggersRules ==
  {CommonTriggersRule(n, d[1], d[2], d[3], d[4]) :
     n \in {1, 2},
     d \in {<<"daq1", "trigger", "daq2", "trigger">>,
            <<"dev1", "di0", "dev2", "trigger_out">>}}

ApplyRules ==
  RuleKinds \cup {FileFindRule(2, "sync.txt", "dev1", "dev2"),
                  FileFindRule(1, "sync.txt", "dev2", "dev1")}
            \cup CommonTriggersRules

\* a rule object on its own: no graph, no session
ApplyInit ==
  /\ rules \in {<<r>> : r \in ApplyRules}
  /\ cached = FALSE
  /\ nodes = EmptyGInfo.nodes
  /\ G = EmptyGInfo.G
  /\ mapping = EmptyGInfo.mapping
  /\ syncRuleG = EmptyGInfo.syncRuleG
  /\ diG = EmptyGInfo.diG
  /\ session = <<>>
  /\ result = Brief(Res("init", "return"))
  /\ callers = NoCallers
  /\ adopted = NotAdopted

\* rule.apply(epochnode_a, epochnode_b) on the rule object
Apply(a, b) ==
  /\ result' = [op |-> "apply", a |-> a, b |-> b, out |-> RuleApply(rules[1], a, b)]
  /\ UNCHANGED <<rules, session, callers>>
  /\ KeepCache

\* the clock types of the nodes _automatic_clock_mapping is called on; Absent
\* is a node without the key 'epoch_clock'
ClockKinds ==
  {"utc", "approx_utc", "exp_global_time", "dev_global_time", "dev_local_time", Absent}

ClockNodes ==
  {EpochNode("e7", clock, name, "ndi.daq.system", <<>>) :
     clock \in ClockKinds, name \in {"dev1", "dev2"}}

\* self._automatic_clock_mapping(node_i, node_j) on its own
AutomaticClock(a, b) ==
  /\ result' = [op |-> "automatic_clock_mapping", a |-> a, b |-> b,
                out |-> AutomaticClockMapping(a, b)]
  /\ UNCHANGED <<rules, session, callers>>
  /\ KeepCache

ApplyNext ==
  \/ \E a, b \in ApplyNodes : Apply(a, b)
  \/ \E a, b \in ClockNodes : AutomaticClock(a, b)

ApplySpec == ApplyInit /\ [][ApplyNext]_vars

\* both nodes are device nodes
BothDevices(a, b) ==
  /\ a.objectclass # Absent /\ StrContains(a.objectclass, "ndi.daq.system")
  /\ b.objectclass # Absent /\ StrContains(b.objectclass, "ndi.daq.system")

\* the number of files the two nodes' file lists have in common
CommonFiles(a, b) == Cardinality(SeqToSet(a.underlying) \cap SeqToSet(b.underlying))

\* C18: FileMatch.apply(a, b) gives cost 1 with the identity mapping exactly
\* when both nodes are device nodes and share at least
\* number_fullpath_matches files; otherwise it gives (None, None); it never
\* raises, and apply(b, a) gives the same.
C18_FileMatchApply ==
  (result.op = "apply" /\ rules[1].type = "FileMatch") =>
    /\ result.out = IF /\ BothDevices(result.a, result.b)
                       /\ CommonFiles(result.a, result.b)
                            >= rules[1].number_fullpath_matches
                    THEN Proposal(1, TimeMapping(1, 0))
                    ELSE NoMatch
    /\ result.out = RuleApply(rules[1], result.b, result.a)

\* apply has matched two different device nodes
C18_Witness ==
  /\ result.op = "apply" /\ rules[1].type = "FileMatch"
  /\ result.a # result.b
  /\ result.out = Proposal(1, TimeMapping(1, 0))

\* the pair is a (daqsystem1, daqsystem2) pair of the rule, in either order
NamedPair(rule, a, b) ==
  \/ a.objectname = rule.daqsystem1 /\ b.objectname = rule.daqsystem2
  \/ b.objectname = rule.daqsystem1 /\ a.objectname = rule.daqsystem2

\* the files of a node that are called syncfilename
SyncFilesOf(rule, node) ==
  {f \in SeqToSet(node.underlying) : Basename(f) = rule.syncfilename}

\* C19: FileFind.apply raises whenever the pair is a (daqsystem1, daqsystem2)
\* pair in either order, both nodes are device nodes, they share at least
\* number_fullpath_matches files and neither has a file named syncfilename;
\* it gives (None, None) whenever the names, the device class or the
\* threshold do not qualify.
C19_FileFindRaisesOrDeclines ==
  (result.op = "apply" /\ rules[1].type = "FileFind") =>
    /\ (/\ NamedPair(rules[1], result.a, result.b)
        /\ BothDevices(result.a, result.b)
        /\ CommonFiles(result.a, result.b) >= rules[1].number_fullpath_matches
        /\ SyncFilesOf(rules[1], result.a) \cup SyncFilesOf(rules[1], result.b) = {})
       => result.out.kind = "raise"
    /\ (\/ ~NamedPair(rules[1], result.a, result.b)
        \/ ~BothDevices(result.a, result.b)
        \/ CommonFiles(result.a, result.b) < rules[1].number_fullpath_matches)
       => result.out = NoMatch

\* apply has raised on a qualifying pair of device nodes without a sync file
C19_Witness ==
  /\ result.op = "apply" /\ rules[1].type = "FileFind"
  /\ BothDevices(result.a, result.b)
  /\ SyncFilesOf(rules[1], result.a) \cup SyncFilesOf(rules[1], result.b) = {}
  /\ result.out = Raised("FileNotFoundError")

\* the times the mappings are tried on
ApplyTimes == {10, 12, 30}

\* the (shift, scale) of the sync file of node a
SyncValues(rule, a) == SyncFileData(CHOOSE f \in SyncFilesOf(rule, a) : TRUE)

\* C20: for a node a of daqsystem1 and a node b of daqsystem2 on which the
\* rule gives an edge, with sync values (shift, scale): apply(a, b) maps t to
\* scale * t + shift, apply(b, a) maps t to (t - shift) / scale, and the
\* second undoes the first.
C20_FileFindDirectionsInverse ==
  (/\ result.op = "apply" /\ rules[1].type = "FileFind"
   /\ result.a.objectname = rules[1].daqsystem1
   /\ result.b.objectname = rules[1].daqsystem2
   /\ result.out.kind = "edge") =>
    /\ RuleApply(rules[1], result.b, result.a).kind = "edge"
    /\ \A t \in ApplyTimes :
         /\ MapTime(result.out.mapping, t) =
              SyncValues(rules[1], result.a).scale * t
                + SyncValues(rules[1], result.a).shift
         /\ MapTime(RuleApply(rules[1], result.b, result.a).mapping, t)
              * SyncValues(rules[1], result.a).scale
              = t - SyncValues(rules[1], result.a).shift
         /\ MapTime(RuleApply(rules[1], result.b, result.a).mapping,
                    MapTime(result.out.mapping, t)) = t

\* apply has given the forward edge of a sync file with shift 10, scale 2
C20_Witness ==
  /\ result.op = "apply" /\ rules[1].type = "FileFind"
  /\ result.a.objectname = rules[1].daqsystem1
  /\ result.b.objectname = rules[1].daqsystem2
  /\ result.out = Proposal(1, TimeMapping(2, 10))

\* C21: CommonTriggers.apply(a, b) with number_fullpath_matches = n gives the
\* outcome FileMatch.apply(a, b) gives with number_fullpath_matches = n, and
\* the outcome every other CommonTriggers rule of the same n gives, whatever
\* its daqsystem1, daqsystem2 and channel parameters.
C21_CommonTriggersAsFileMatch ==
  (result.op = "apply" /\ rules[1].type = "CommonTriggers") =>
    /\ result.out = FileMatchApply(FileMatchRule(rules[1].number_fullpath_matches),
                                   result.a, result.b)
    /\ \A other \in CommonTriggersRules :
         other.number_fullpath_matches = rules[1].number_fullpath_matches
           => RuleApply(other, result.a, result.b) = result.out

\* a CommonTriggers rule has matched two device nodes that are not the DAQ
\* systems its parameters name
C21_Witness ==
  /\ result.op = "apply" /\ rules[1].type = "CommonTriggers"
  /\ result.a.objectname \notin {rules[1].daqsystem1, rules[1].daqsystem2}
  /\ result.a # result.b
  /\ result.out = Proposal(1, TimeMapping(1, 0))

\* the class string of the node contains the class string asked for
ClassContains(node, class) ==
  /\ node.objectclass # Absent
  /\ StrContains(node.objectclass, class)

\* the indices find_node_index has to return for the fields of q
ExpectedIndices(ns, q) ==
  {k \in 0..Len(ns) - 1 :
     /\ q.objectclass # Absent => ClassContains(ns[k + 1], q.objectclass)
     /\ q.epoch_clock # Absent => ns[k + 1].epoch_clock = q.epoch_clock
     /\ q.clock_object # NoClockObject => ns[k + 1].epoch_clock = q.clock_object.type
     /\ q.epoch_id # Absent => ns[k + 1].epoch_id = q.epoch_id
     /\ q.objectname # Absent => ns[k + 1].objectname = q.objectname}

\* the list is in ascending order without repeats
Ascending(l) == \A x, y \in 1..Len(l) : x < y => l[x] < l[y]

\* C22: find_node_index(fields) returns, ascending and without repeats,
\* exactly the indices of the nodes that match every supplied field: the class
\* by containment (a node without class never matches), the clock by its type
\* name whether asked for as a string or as an object, the other fields by
\* equality; no field at all gives every index; and the call leaves the
\* nodes, costs and mappings graphinfo() returns as they were.
C22_FindNodeIndex ==
  [][\A q \in Queries :
       FindNodeIndex(q) =>
         /\ Ascending(FindNodeIndexResult(NextGraphInfo, q))
         /\ SeqToSet(FindNodeIndexResult(NextGraphInfo, q))
              = ExpectedIndices(NextGraphInfo.nodes, q)
         /\ q = Query(Absent, Absent, Absent, Absent) =>
              FindNodeIndexResult(NextGraphInfo, q)
                = [k \in 1..Len(NextGraphInfo.nodes) |-> k - 1]
         /\ NextGraphInfo.nodes = CurrentGraphInfo.nodes
         /\ NextGraphInfo.G = CurrentGraphInfo.G
         /\ NextGraphInfo.mapping = CurrentGraphInfo.mapping]_vars

\* find_node_index has run on a graph of three nodes, one of them without a
\* class and one whose class only contains the class asked for: the class
\* query finds two of the three, the clock-object query another two
C22_Witness ==
  /\ result.op = "find_node_index"
  /\ cached /\ Len(nodes) = 3
  /\ \E k \in 1..3 : nodes[k].objectclass = Absent
  /\ \E k \in 1..3 : nodes[k].objectclass = "ndi.daq.system.mfdaq"
  /\ Len(FindNodeIndexResult(CachedGInfo, Query(Absent, Absent, "ndi.daq.system", Absent))) = 2
  /\ Len(FindNodeIndexResult(CachedGInfo, QueryByClockObject("dev_global_time"))) >= 1

(* ---------------- queries from several threads at once ------------------ *)
\* the threads that query one SyncGraph object
MaxCallers == 2

Callers == 1..MaxCallers

\* the rule list of the graph the threads query
QueryRules == <<FileMatchRule(1)>>

\* the growth calls that made the graph: each entry is one manual_add_nodes
QueryHistories ==
  {<<MockDAQSystem(<<NodeA, NodeB>>,
                   [cost |-> ChainCost(2), mapping |-> ChainMapping(2)])>>,
   <<MockDAQSystem(<<NodeC>>, [cost |-> ManualDefaultCost(1),
                               mapping |-> DefaultMapping(1)]),
     MockDAQSystem(<<NodeD>>, [cost |-> ManualDefaultCost(1),
                               mapping |-> DefaultMapping(1)])>>}

\* one more manual_add_nodes, made after the graph was queried
LaterDevice ==
  MockDAQSystem(<<NodeC>>, [cost |-> ManualDefaultCost(1), mapping |-> DefaultMapping(1)])

\* the dictionary after the growth calls k.. of history h, none of which raises
RECURSIVE GrownFrom(_, _, _)
GrownFrom(g, h, k) ==
  IF k > Len(h) THEN g ELSE GrownFrom(AddEpoch(h[k], g, QueryRules).ginfo, h, k + 1)

\* how far the graph has come when the threads find it: as growth left it
\* (no path graph), after a time_convert built the path graph, and grown once
\* more after that
QueryCases ==
  (QueryHistories \X {"grown", "queried"})
  \cup {<<h, "grown again">> : h \in {x \in QueryHistories : Len(x) = 1}}

\* the cached dictionary of a case
QueryGraph(h, stage) ==
  IF stage = "grown" THEN GrownFrom(EmptyGInfo, h, 1)
  ELSE IF stage = "queried" THEN WithDiGraph(GrownFrom(EmptyGInfo, h, 1))
  ELSE AddEpoch(LaterDevice, WithDiGraph(GrownFrom(EmptyGInfo, h, 1)), QueryRules).ginfo

\* whose objects its matrices are: those of the device of the only growth call
QueryAdopted(h, stage) ==
  IF Len(h) = 1 /\ stage # "grown again"
  THEN AdoptedAfter(h[1], EmptyGInfo, NotAdopted)
  ELSE NotAdopted

QueryGraphs == {QueryGraph(c[1], c[2]) : c \in QueryCases}

\* a thread outside any call
Idle == [pc |-> "idle"]

\* one SyncGraph object with a cached graphinfo and no call in flight
QueryInit ==
  /\ rules = QueryRules
  /\ session = <<>>
  /\ \E c \in QueryCases : /\ cached = TRUE
                           /\ nodes = QueryGraph(c[1], c[2]).nodes
                           /\ G = QueryGraph(c[1], c[2]).G
                           /\ mapping = QueryGraph(c[1], c[2]).mapping
                           /\ syncRuleG = QueryGraph(c[1], c[2]).syncRuleG
                           /\ diG = QueryGraph(c[1], c[2]).diG
                           /\ adopted = QueryAdopted(c[1], c[2])
  /\ result = Brief(Res("init", "return"))
  /\ callers = [c \in Callers |-> Idle]

\* a step of thread c that touches no attribute of the object
OnlyCaller(c, next) ==
  /\ callers' = [callers EXCEPT ![c] = next]
  /\ KeepCache
  /\ UNCHANGED <<rules, session, result>>

\* thread c has returned r
Done(call, r) == [pc |-> "done", call |-> call, ret |-> r]

\* the queries the threads make with find_node_index
CallerQueries ==
  {Query(Absent, Absent, "ndi.daq.system", Absent), QueryByClockObject("dev_global_time")}

\* thread c enters time_convert(s, t, t_in): ginfo = self.graphinfo(), which
\* returns the cached dictionary
StartTimeConvert(c, s, t, t_in) ==
  /\ callers[c] = Idle
  /\ cached
  /\ OnlyCaller(c, [pc |-> "validate",
                    call |-> [op |-> "time_convert", s |-> s, t |-> t, t_in |-> t_in]])

\* time_convert: the index checks and the same-node return
TcValidate(c) ==
  /\ callers[c].pc = "validate"
  /\ LET call == callers[c].call
         n == Len(nodes)
         R == Res("time_convert", "return")
     IN OnlyCaller(c,
          IF call.s < 0 \/ call.s >= n
          THEN Done(call, Brief([R EXCEPT !.msg = Msg("Invalid source node index",
                                                      <<call.s>>)]))
          ELSE IF call.t < 0 \/ call.t >= n
          THEN Done(call, Brief([R EXCEPT !.msg = Msg("Invalid destination node index",
                                                      <<call.t>>)]))
          ELSE IF call.s = call.t
          THEN Done(call, Brief([R EXCEPT !.hasValue = TRUE, !.value = call.t_in]))
          ELSE [pc |-> "check", call |-> call])

\* time_convert: if ginfo['diG'] is None
TcCheck(c) ==
  /\ callers[c].pc = "check"
  /\ OnlyCaller(c, [pc |-> IF diG = NoDiG THEN "build" ELSE "path",
                    call |-> callers[c].call])

\* time_convert: self._build_networkx_graph(ginfo['G'])
TcBuild(c) ==
  /\ callers[c].pc = "build"
  /\ OnlyCaller(c, [pc |-> "store", call |-> callers[c].call,
                    built |-> BuildNetworkxGraph(G)])

StoreDiGNone(g, d) == [g EXCEPT !.diG = NoDiG]

\* ginfo['diG'] = d; self.set_cached_graphinfo(ginfo)
StoreDiG(g, d) == [g EXCEPT !.diG = d]

\* time_convert: the path graph thread c built goes into the dictionary
TcStore(c) ==
  /\ callers[c].pc = "store"
  /\ SetCache(StoreDiG(CachedGInfo, callers[c].built))
  /\ adopted' = CurrentAdopted
  /\ callers' = [callers EXCEPT ![c] = [pc |-> "path", call |-> callers[c].call]]
  /\ UNCHANGED <<rules, session, result>>

\* time_convert from diG = ginfo['diG'] to its return: has_path,
\* dijkstra_path and the mappings along the path
TimeConvertOnPath(d, mp, s, t, t_in) ==
  LET R == Res("time_convert", "return") IN
  IF d = NoDiG
  THEN {[Res("time_convert", "raise") EXCEPT !.error = "AttributeError"]}
  ELSE IF s \notin Vertices(d) \/ t \notin Vertices(d)
  THEN {[Res("time_convert", "raise") EXCEPT !.error = "NodeNotFound"]}
  ELSE IF ~HasPath(d, s, t)
  THEN {[R EXCEPT !.msg = Msg("No path exists", <<s, t>>)]}
  ELSE {IF ApplyMappings(mp, p, 1, t_in).ok
        THEN [R EXCEPT !.hasValue = TRUE, !.value = ApplyMappings(mp, p, 1, t_in).t]
        ELSE [R EXCEPT !.msg = Msg("No time mapping found for edge",
                                   <<ApplyMappings(mp, p, 1, t_in).from,
                                     ApplyMappings(mp, p, 1, t_in).to>>)]
        : p \in DijkstraPaths(d, s, t)}

\* time_convert: thread c reads ginfo['diG'] and finishes
TcPath(c) ==
  /\ callers[c].pc = "path"
  /\ \E r \in TimeConvertOnPath(diG, mapping, callers[c].call.s, callers[c].call.t,
                                callers[c].call.t_in) :
       OnlyCaller(c, Done(callers[c].call, Brief(r)))

\* thread c enters find_node_index(q): ginfo = self.graphinfo()
StartFindNodeIndex(c, q) ==
  /\ callers[c] = Idle
  /\ cached
  /\ OnlyCaller(c, [pc |-> "scan", call |-> [op |-> "find_node_index", q |-> q]])

\* find_node_index: the loop over ginfo['nodes'] and the return
FnScan(c) ==
  /\ callers[c].pc = "scan"
  /\ OnlyCaller(c, Done(callers[c].call, MatchesFrom(nodes, callers[c].call.q, 0)))

\* thread c takes its result and is free for the next call
Return(c) ==
  /\ callers[c].pc = "done"
  /\ OnlyCaller(c, Idle)

QueryNext ==
  \E c \in Callers :
    \/ \E s, t \in -1..Len(nodes) - 1 : \E t_in \in TimeValues :
         StartTimeConvert(c, s, t, t_in)
    \/ TcValidate(c)
    \/ TcCheck(c)
    \/ TcBuild(c)
    \/ TcStore(c)
    \/ TcPath(c)
    \/ \E q \in CallerQueries : StartFindNodeIndex(c, q)
    \/ FnScan(c)
    \/ Return(c)

QuerySpec == QueryInit /\ [][QueryNext]_vars

\* what the call gives back when it runs alone on the cached dictionary g
AloneResults(g, call) ==
  IF call.op = "time_convert"
  THEN {Brief(r) : r \in TimeConvertResults(g, call.s, call.t, call.t_in)}
  ELSE {FindNodeIndexResult(g, call.q)}

\* the calls a thread can make on a graph of n nodes
CallsOn(n) ==
  {[op |-> "time_convert", s |-> s, t |-> t, t_in |-> t_in] :
     s \in -1..n - 1, t \in -1..n - 1, t_in \in TimeValues}
  \cup {[op |-> "find_node_index", q |-> q] : q \in CallerQueries}

\* the cached dictionary in the state a step leads to
CachedGInfoNext ==
  [nodes |-> nodes', G |-> G', mapping |-> mapping', syncRuleG |-> syncRuleG',
   diG |-> diG']

\* C23: with a graphinfo cached and no mutation going on, find_node_index and
\* time_convert calls of several threads may interleave in any way: every
\* call that returns gives back a result it gives when it runs alone, what a
\* call gives when run alone is the same before and after every step, and no
\* step changes the nodes, the cost matrix, the mapping matrix or the rules.
C23_QueriesInterleave ==
  [][/\ \A c \in Callers :
          callers'[c].pc = "done" =>
            callers'[c].ret \in AloneResults(CachedGInfo, callers'[c].call)
     /\ \A call \in CallsOn(Len(nodes)) :
          AloneResults(CachedGInfoNext, call) = AloneResults(CachedGInfo, call)
     /\ cached'
     /\ UNCHANGED <<nodes, G, mapping, rules>>]_vars

\* both threads have returned from time_convert(0, 1, 5) with a value, and at
\* least one of them built the path graph on the way
C23_Witness ==
  /\ \A c \in Callers :
       /\ callers[c].pc = "done"
       /\ callers[c].call = [op |-> "time_convert", s |-> 0, t |-> 1, t_in |-> 5]
       /\ callers[c].ret.hasValue
  /\ diG # NoDiG
  /\ \E g \in QueryGraphs : g.nodes = nodes /\ g.diG = NoDiG

\* the cost and mapping matrices addepoch takes from the device
DeviceCost(dev) ==
  IF dev.epochgraph THEN dev.cost ELSE AddepochDefaultCost(Len(dev.nodes))

DeviceMapping(dev) ==
  IF dev.epochgraph THEN dev.mapping ELSE DefaultMapping(Len(dev.nodes))

\* the frame of one growth call that took the graph old to the graph new by
\* adding the nodes of dev
GrowthFrame(old, new, dev) ==
  LET old_n == Len(old.nodes)
      new_n == Len(dev.nodes)
      Idx == 0..old_n + new_n - 1
  IN
  /\ new.nodes = old.nodes \o dev.nodes
  /\ DOMAIN new.G = Idx /\ DOMAIN new.mapping = Idx /\ DOMAIN new.syncRuleG = Idx
  /\ \A i, j \in Idx :
       /\ (i < old_n /\ j < old_n) =>
            /\ new.G[i][j] = old.G[i][j]
            /\ new.mapping[i][j] = old.mapping[i][j]
            /\ new.syncRuleG[i][j] = old.syncRuleG[i][j]
       /\ (i >= old_n /\ j >= old_n) =>
            /\ new.G[i][j] = DeviceCost(dev)[i - old_n][j - old_n]
            /\ new.mapping[i][j] = DeviceMapping(dev)[i - old_n][j - old_n]
            /\ new.syncRuleG[i][j] = 0

\* C24: a growth call that appends new_n nodes to a graph of old_n nodes
\* leaves every entry of the old top-left block (cost, mapping, rule
\* provenance) as it was, fills the new bottom-right block with the device's
\* own cost and mapping entries and provenance 0, and so changes only
\* old<->new cross entries, which start at +infinity / None.
C24_GrowthFrame ==
  [][/\ result'.op = "manual_add_nodes" =>
          \A b \in Batches : \A m \in ManualMatrices(Len(b)) :
            (ManualAddNodes(b, m) /\ Len(b) > 0)
              => GrowthFrame(CurrentGraphInfo, NextGraphInfo, MockDAQSystem(b, m))
     /\ result'.op = "addepoch" =>
          \A b \in PlainBatches :
            AddEpochCall(b)
              => GrowthFrame(CurrentGraphInfo, NextGraphInfo, PlainDAQSystem(b))]_vars

\* a growth call has put two chained nodes behind an older node: the device's
\* own edge of cost 1 lies in the new block, an automatic edge of cost 100 in
\* the cross block
C24_Witness ==
  /\ result.op = "manual_add_nodes" /\ result.outcome = "return"
  /\ cached /\ Len(nodes) = 3
  /\ nodes[2] = NodeA /\ nodes[3] = NodeB
  /\ G[1][2] = 1 /\ mapping[1][2] = TimeMapping(2, 0)
  /\ G[2][1] = Inf
  /\ \E j \in 1..2 : G[0][j] < Inf

\* the clock types that join two nodes of the same type
GlobalClocks == {"utc", "approx_utc", "exp_global_time"}

\* the cases in which two nodes get an automatic edge
AutomaticCase(a, b) ==
  \/ a.epoch_clock = b.epoch_clock /\ a.epoch_clock \in GlobalClocks
  \/ /\ a.epoch_clock = "dev_global_time" /\ b.epoch_clock = "dev_global_time"
     /\ a.objectname = b.objectname
  \/ a.epoch_clock = "utc" /\ b.epoch_clock = "approx_utc"
  \/ a.epoch_clock = "approx_utc" /\ b.epoch_clock = "utc"

\* C25: the automatic proposal for two nodes is cost 100 with the identity
\* mapping exactly when both clocks have the same type among utc, approx_utc,
\* exp_global_time, or both are dev_global_time on the same objectname, or one
\* is utc and the other approx_utc; in every other case, a node without clock
\* included, it is no edge (+infinity, None); and it is the same for (a, b)
\* and (b, a).
C25_AutomaticProposal ==
  result.op = "automatic_clock_mapping" =>
    /\ result.out = IF AutomaticCase(result.a, result.b)
                    THEN [cost |-> 100, mapping |-> TimeMapping(1, 0)]
                    ELSE [cost |-> Inf, mapping |-> NoMapping]
    /\ (result.a.epoch_clock = Absent \/ result.b.epoch_clock = Absent)
         => result.out.cost = Inf
    /\ AutomaticClockMapping(result.b, result.a) = result.out

\* the automatic proposal has joined an approx_utc node to a utc node of
\* another device
C25_Witness ==
  /\ result.op = "automatic_clock_mapping"
  /\ result.a.epoch_clock = "approx_utc" /\ result.b.epoch_clock = "utc"
  /\ result.a.objectname # result.b.objectname
  /\ result.out = [cost |-> 100, mapping |-> TimeMapping(1, 0)]

\* what is proposed for the ordered pair (a, b): the automatic edge (cost
\* +infinity and no mapping when there is none) and the edge of every rule of
\* rs that gives one
ProposalsFor(rs, a, b) ==
  {AutomaticClockMapping(a, b)}
  \cup {[cost |-> RuleApply(rs[k], a, b).cost, mapping |-> RuleApply(rs[k], a, b).mapping] :
          k \in {x \in 1..Len(rs) : RuleApply(rs[x], a, b).kind = "edge"}}

\* the edges of the old/new pairs of the graph new, grown from old_n nodes,
\* are the cheapest proposals
CheapestProposals(rs, old_n, new) ==
  \A i, j \in 0..Len(new.nodes) - 1 :
    Cross(old_n, i, j) =>
      /\ new.G[i][j] = Min({p.cost : p \in ProposalsFor(rs, new.nodes[i + 1], new.nodes[j + 1])})
      /\ [cost |-> new.G[i][j], mapping |-> new.mapping[i][j]]
           \in ProposalsFor(rs, new.nodes[i + 1], new.nodes[j + 1])
      /\ new.G[i][j] <= AutomaticClockMapping(new.nodes[i + 1], new.nodes[j + 1]).cost

\* C26: after a growth call, for every ordered old/new pair (i, j) the stored
\* cost is the minimum of the automatic edge's cost and the costs the
\* registered rules propose for (i, j) (+infinity when there is none), the
\* stored mapping is one proposed together with that cost, and the cost is
\* not above the one held before the rules were tried.
C26_RulesOnlyImprove ==
  [][IsGrowth(result') =>
       CheapestProposals(rules, Len(CurrentGraphInfo.nodes), NextGraphInfo)]_vars

\* C26 for the growth calls that return: the same, for every growth call that
\* ran to its end.
C26_RulesOnlyImproveOnReturn ==
  [][(IsGrowth(result') /\ result'.outcome = "return") =>
       CheapestProposals(rules, Len(CurrentGraphInfo.nodes), NextGraphInfo)]_vars

\* a growth call has returned with a rule edge of cost 1 that replaced an
\* automatic edge of cost 100 between two utc nodes
C26_Witness ==
  /\ IsGrowth(result) /\ result.outcome = "return"
  /\ Len(rules) > 0
  /\ \E i, j \in NodeIdx :
       /\ UtcPair(nodes[i + 1], nodes[j + 1])
       /\ G[i][j] = 1
       /\ syncRuleG[i][j] > 0

\* the rules of rs, by 1-based index, that propose an edge of cost c for (a, b)
ProposersOf(rs, a, b, c) ==
  {k \in 1..Len(rs) : RuleApply(rs[k], a, b).kind = "edge" /\ RuleApply(rs[k], a, b).cost = c}

\* the provenance in the graph new, grown from old_n nodes: for an old/new
\* pair the first rule that proposes the final cost when that cost is below
\* the automatic edge's, 0 otherwise; 0 between two nodes of the call
FirstProposerRecorded(rs, old_n, new) ==
  \A i, j \in 0..Len(new.nodes) - 1 :
    /\ Cross(old_n, i, j) =>
         IF new.G[i][j] < AutomaticClockMapping(new.nodes[i + 1], new.nodes[j + 1]).cost
         THEN /\ ProposersOf(rs, new.nodes[i + 1], new.nodes[j + 1], new.G[i][j]) # {}
              /\ new.syncRuleG[i][j]
                   = Min(ProposersOf(rs, new.nodes[i + 1], new.nodes[j + 1], new.G[i][j]))
              /\ new.mapping[i][j]
                   = RuleApply(rs[new.syncRuleG[i][j]],
                               new.nodes[i + 1], new.nodes[j + 1]).mapping
         ELSE new.syncRuleG[i][j] = 0
    /\ (i >= old_n /\ j >= old_n) => new.syncRuleG[i][j] = 0

\* every provenance entry of the graph g is 0 or the index of a rule of rs,
\* and a non-zero entry belongs to an edge of finite cost
ProvenanceInRange(rs, g) ==
  \A i, j \in 0..Len(g.nodes) - 1 :
    /\ 0 <= g.syncRuleG[i][j] /\ g.syncRuleG[i][j] <= Len(rs)
    /\ g.syncRuleG[i][j] # 0 => g.G[i][j] < Inf

\* C27: among candidates of equal cost the first proposer wins: after a
\* growth call the provenance of an old/new pair is the 1-based index of the
\* first rule, in registration order, that proposes the final cost when that
\* cost is strictly below the automatic edge's cost, with that rule's mapping,
\* and 0 when the final edge is the automatic one, or the device's own
\* between two nodes of the call, or there is none; and in every state every
\* entry lies in 0..len(rules), a non-zero entry only on an edge of finite
\* cost.
C27_FirstProposerWins ==
  [][/\ IsGrowth(result') =>
          FirstProposerRecorded(rules, Len(CurrentGraphInfo.nodes), NextGraphInfo)
     /\ ProvenanceInRange(rules, CurrentGraphInfo)
     /\ ProvenanceInRange(rules', NextGraphInfo)]_vars

\* a growth call has made an edge that FileFind, registered first, and
\* FileMatch, registered second, both propose at cost 1: the edge carries
\* provenance 1 and the mapping of the sync file
C27_Witness ==
  /\ IsGrowth(result) /\ result.outcome = "return"
  /\ Len(rules) = 2 /\ rules[1].type = "FileFind" /\ rules[2].type = "FileMatch"
  /\ \E i, j \in NodeIdx :
       /\ ProposersOf(rules, nodes[i + 1], nodes[j + 1], 1) = {1, 2}
       /\ G[i][j] = 1 /\ syncRuleG[i][j] = 1
       /\ mapping[i][j] = TimeMapping(1, 5)

\* the files the two nodes have in common
CommonFileSet(a, b) == SeqToSet(a.underlying) \cap SeqToSet(b.underlying)

\* C28 as stated: FileFind.apply gives an edge only when a file named
\* syncfilename is among the files common to both nodes' lists; a file of that
\* name in only one of the two lists produces no mapping.
C28_SyncFileAmongCommon ==
  (result.op = "apply" /\ rules[1].type = "FileFind" /\ result.out.kind = "edge") =>
    \E f \in CommonFileSet(result.a, result.b) : Basename(f) = rules[1].syncfilename

\* the node of the pair that belongs to daqsystem1: a in the forward
\* direction, b in the backward direction
FirstSystemNode(rule, a, b) ==
  IF a.objectname = rule.daqsystem1 /\ b.objectname = rule.daqsystem2 THEN a ELSE b

\* the first file of the node's list that is named syncfilename
FirstSyncFile(rule, node) ==
  node.underlying[Min({k \in 1..Len(node.underlying) :
                         Basename(node.underlying[k]) = rule.syncfilename})]

\* C28 amended: FileFind.apply looks for the sync file in the file list of the
\* daqsystem1 node of the pair, common to both nodes or not: on a pair that
\* qualifies (names, device class, threshold of common files) it gives cost 1
\* with the mapping of the first file named syncfilename in that list, the
\* inverse in the backward direction, and raises when that list has none, also
\* when the daqsystem2 node has such a file; it gives an edge in no other
\* case.
C28_SyncFileOfFirstSystem ==
  (result.op = "apply" /\ rules[1].type = "FileFind") =>
    IF /\ NamedPair(rules[1], result.a, result.b)
       /\ BothDevices(result.a, result.b)
       /\ CommonFiles(result.a, result.b) >= rules[1].number_fullpath_matches
    THEN IF SyncFilesOf(rules[1], FirstSystemNode(rules[1], result.a, result.b)) = {}
         THEN result.out = Raised("FileNotFoundError")
         ELSE result.out =
                LoadSyncFile(FirstSyncFile(rules[1],
                                           FirstSystemNode(rules[1], result.a, result.b)),
                             FirstSystemNode(rules[1], result.a, result.b) # result.a)
    ELSE result.out.kind # "edge"

\* apply has given an edge from a sync file that only the daqsystem1 node has
C28_Witness ==
  /\ result.op = "apply" /\ rules[1].type = "FileFind"
  /\ result.out.kind = "edge"
  /\ SyncFilesOf(rules[1], FirstSystemNode(rules[1], result.a, result.b)) # {}
  /\ SyncFilesOf(rules[1], FirstSystemNode(rules[1], result.a, result.b))
       \cap CommonFileSet(result.a, result.b) = {}

\* C29: a growth call that fails is atomic: when a rule raises during
\* manual_add_nodes / addepoch, the graph that graphinfo(), time_convert and
\* find_node_index see afterwards is the graph from before the call: the same
\* node list and the same cost, mapping and provenance matrices.
C29_FailedGrowthAtomic ==
  [][(IsGrowth(result') /\ result'.outcome = "raise") =>
       /\ NextGraphInfo.nodes = CurrentGraphInfo.nodes
       /\ NextGraphInfo.G = CurrentGraphInfo.G
       /\ NextGraphInfo.mapping = CurrentGraphInfo.mapping
       /\ NextGraphInfo.syncRuleG = CurrentGraphInfo.syncRuleG]_vars

(* ---------------- C30: the matrices a device handed over ---------------- *)
\* C30: growth never writes into the matrices a device handed over.  The only
\* matrices of a device that the graph holds as they are, without a copy, are
\* those of the first device added to an empty graph: as long as ginfo['G']
\* and ginfo['mapping'] are those objects, they hold the values the device
\* supplied, whatever growth calls and queries came after; every later growth
\* gives the graph matrices of its own.
C30_DeviceMatricesKept ==
  (cached /\ adopted.is) => (G = adopted.cost /\ mapping = adopted.mapping)

\* a growth call on an empty graph that has rules returned, and the graph
\* holds the two-node matrices of the device as they are
C30_Witness ==
  /\ cached
  /\ result.op = "manual_add_nodes"
  /\ result.outcome = "return"
  /\ Len(rules) > 0
  /\ adopted.is
  /\ Len(nodes) >= 2
  /\ Len(nodes) = Cardinality(DOMAIN adopted.cost)

====
